---- MODULE Spec2Model ----
(***************************************************************************)
(* Session / cache coordination layer of the MCP FileMaker bridge.         *)
(*                                                                         *)
(* Two programs share the layer: server.js (module-level dataCache and     *)
(* sessionCache, authenticateFileMaker, makeFileMakerRequest and the tool  *)
(* handler) and src/index.ts with src/filemaker-client.ts (one             *)
(* FileMakerClient, with its own two caches, per configured database).     *)
(* The variable impl says which of the two programs is running.            *)
(*                                                                         *)
(* Every await of the code is a suspension point: an action of the model   *)
(* is the code that runs between two awaits of one tool invocation.  The   *)
(* backend's answers are the inputs of the response actions.               *)
(***************************************************************************)
EXTENDS Integers, Sequences, FiniteSets, TLC

VARIABLES
    startup,       \* the start of the process: discovery loop, exit, connect
    impl,          \* "server.js" or "index.ts": the program that is running
    env,           \* the configuration (process.env) read at start-up
    dataCache,     \* raw store of the data caches: key -> [v, expired]
    sessionCache,  \* raw store of the session caches: key -> [v, expired]
    inv,           \* the tool invocations suspended at an await, per slot
    last,          \* the invocation that returned in the last step, if any
    issued         \* number of session tokens the backends have issued

vars == <<startup, impl, env, dataCache, sessionCache, inv, last, issued>>

----------------------------------------------------------------------------
(* Bounds of the model *)

\* the invocations of one behaviour that wait for the backend: each slot
\* holds one of them, once; invocations that return without a remote call
\* take no slot
MaxCalls == 2
Procs == 1..MaxCalls

----------------------------------------------------------------------------
(* JavaScript values: a type tag and a content *)

Undefined == [t |-> "undefined", v |-> ""]
Str(s) == [t |-> "string", v |-> s]
\* a parsed JSON object; v stands for the content of its `response` member,
\* "" for an object that has no `response` member
Obj(r) == [t |-> "object", v |-> r]

\* JavaScript truthiness, as tested by `if (cached)` and `if (!result)`
Truthy(x) ==
    /\ x.t # "undefined"
    /\ ~(x.t = "string" /\ x.v = "")

\* result.response of the handlers: the member of an object, undefined for
\* an object without it and for a string
ResponseOf(x) ==
    IF x.t = "object" /\ x.v # "" THEN Str(x.v) ELSE Undefined

----------------------------------------------------------------------------
(* Configuration and database discovery *)

\* the identifiers <ID> of the FM_SERVER_<ID> keys, in the order of
\* Object.keys(process.env)
Identifiers == <<"A", "B">>

\* one group of variables FM_SERVER_<ID>, FM_DATABASE_<ID>, FM_ACCOUNT_<ID>,
\* FM_PASSWORD_<ID>, FM_API_KEY_<ID>; "" is a variable that is unset or empty
Group(server, database, username, password, apiKey) ==
    [server |-> server, database |-> database, username |-> username,
     password |-> password, apiKey |-> apiKey]

\* the configurations the model starts from: two databases with different
\* names, and the same database name hosted on two servers
Envs ==
    { [A |-> Group("s1", "Sales", "u", "p", ""),
       B |-> Group("s2", "Stock", "u", "p", "")],
      [A |-> Group("s1", "Sales", "u", "p", ""),
       B |-> Group("s2", "Sales", "u", "p", "")] }

\* a test that takes any one credential for enough
ValidGroup_AnyCredential(g) ==
    /\ g.server # ""
    /\ g.database # ""
    /\ (g.username # "" \/ g.password # "" \/ g.apiKey # "")

\* the test of the discovery loop: server && database &&
\* ((username && password) || apiKey)
ValidGroup(g) ==
    /\ g.server # ""
    /\ g.database # ""
    /\ \/ (g.username # "" /\ g.password # "")
       \/ g.apiKey # ""

\* databaseNames: the identifiers pushed by the discovery loop, in order
databaseNames(e) == SelectSeq(Identifiers, LAMBDA i : ValidGroup(e[i]))

\* the keys of `databases` (server.js) and of `clients` (index.ts)
Registered(e) == {databaseNames(e)[n] : n \in 1..Len(databaseNames(e))}

\* databaseNames.join(', ')
RECURSIVE Join(_)
Join(names) ==
    IF names = <<>> THEN ""
    ELSE IF Len(names) = 1 THEN names[1]
    ELSE names[1] \o ", " \o Join(Tail(names))

\* the start of the process: the discovery loop is about to look at the
\* i-th FM_SERVER_ key and has pushed `names`; the process has exited; the
\* transport is connected and tool calls are answered
Discovering(i, names) == [pc |-> "discover", i |-> i, names |-> names]
Exited(i, names) == [pc |-> "exited", i |-> i, names |-> names]
Connected(i, names) == [pc |-> "connected", i |-> i, names |-> names]

\* the values a caller passes as args.database: the identifiers and one
\* name that no configuration holds
ArgDatabases == {"A", "B", "Z"}
\* the values a caller passes as args.layout
Layouts == {"Contacts"}

----------------------------------------------------------------------------
(* node-cache: a store of entries [v, t], t the time the entry expires:  *)
(* the time of its set plus the stdTTL of the cache.  The model keeps,    *)
(* for t, whether that time has passed.                                   *)

\* the NodeCache instance a database's requests use: the module-level
\* caches of server.js, the caches of the database's own FileMakerClient
Instance(id) == IF impl = "server.js" THEN "" ELSE id

\* _check: an entry is expired when its t is before Date.now()
Expired(c, k) == c[k].expired
Live(c, k) == k \in DOMAIN c /\ ~Expired(c, k)

\* a get that does not look at the expiry of the entry
CacheGet_Stale(c, k) == IF k \in DOMAIN c THEN c[k].v ELSE Undefined

\* get: the value of a live entry, undefined otherwise
CacheGet(c, k) == IF Live(c, k) THEN c[k].v ELSE Undefined

\* get deletes the entry it finds expired
AfterGet(c, k) ==
    IF k \in DOMAIN c /\ Expired(c, k)
    THEN [x \in DOMAIN c \ {k} |-> c[x]]
    ELSE c

\* set: insert or overwrite; t is Date.now() plus the TTL
CacheSet(c, k, v) ==
    [x \in DOMAIN c \cup {k} |->
        IF x = k THEN [v |-> v, expired |-> FALSE] ELSE c[x]]

\* del
CacheDel(c, k) == [x \in DOMAIN c \ {k} |-> c[x]]

\* flushAll of one NodeCache instance
FlushAll(c, instance) == [x \in {y \in DOMAIN c : y[1] # instance} |-> c[x]]

\* the periodic check (checkperiod): delete every expired entry
AfterSweep(c) == [x \in {y \in DOMAIN c : ~Expired(c, y)} |-> c[x]]

----------------------------------------------------------------------------
(* The backend's answers *)

\* response.data of a 2xx answer to a data call: an object with a `response`
\* member, an object without one (an application-level error) and the
\* empty body of an answer without content
Payloads == {Obj("rows"), Obj(""), Str("")}

\* a call that fails: the HTTP status (0: no answer, a network error or a
\* timeout) and messages[0].message of the answer's body, "" without one
Failures ==
    { [status |-> 401, message |-> "denied by FileMaker"],
      [status |-> 500, message |-> ""],
      [status |-> 0, message |-> ""] }

\* error.message of the error axios raises
AxiosMessage(f) ==
    IF f.status = 0 THEN "Network Error"
    ELSE "Request failed with status code " \o ToString(f.status)

\* error.response?.data?.messages?.[0]?.message || error.message
ErrorMessage(f) == IF f.message # "" THEN f.message ELSE AxiosMessage(f)

\* response.data.response.token of the n-th session the backends open,
\* opened for the database configured as id
Token(id, n) == Str("token-" \o id \o "-" \o ToString(n))

----------------------------------------------------------------------------
(* Tool invocations *)

\* a find request of args.query: an object, as the sequence of its
\* properties <<name, value>> in insertion order; NoQuery when the caller
\* passes no query
NoQuery == <<>>
\* the find requests a caller passes: two objects with the same properties
\* in different orders, and one with another property
Queries ==
    { << <<"city", "Bern">>, <<"zip", "3000">> >>,
      << <<"zip", "3000">>, <<"city", "Bern">> >>,
      << <<"city", "Basel">> >> }
\* what a caller of server.js passes as args.query
ServerQueries == {NoQuery, << <<"city", "Basel">> >>}

\* JSON.stringify of an object of strings: the properties in insertion
\* order
RECURSIVE Properties(_)
Properties(o) ==
    IF o = <<>> THEN ""
    ELSE "\"" \o o[1][1] \o "\":\"" \o o[1][2] \o "\""
         \o (IF Len(o) = 1 THEN "" ELSE ",")
         \o Properties(Tail(o))
Stringify(o) == "{" \o Properties(o) \o "}"

NoArgs == [database |-> "", layout |-> "", type |-> "", query |-> NoQuery]
Args(database, layout, type) ==
    [database |-> database, layout |-> layout, type |-> type,
     query |-> NoQuery]
\* the arguments of a record query
QueryArgs(database, layout, query) ==
    [database |-> database, layout |-> layout, type |-> "", query |-> query]
NoResult == [status |-> "none", value |-> Undefined, text |-> Undefined]

\* a slot that holds no invocation yet, and the value of `last` after a
\* step in which no invocation returned.  A slot keeps the invocation that
\* has returned from it, with pc "used".
Idle ==
    [pc |-> "idle", tool |-> "", args |-> NoArgs, method |-> "",
     key |-> <<"", "">>, token |-> Undefined, trace |-> <<>>,
     result |-> NoResult, cleared |-> FALSE, flushed |-> FALSE]

\* a slot whose invocation has returned
Used == [Idle EXCEPT !.pc = "used"]

\* an invocation at the start of its handler
NewCall(tool, a, method) ==
    [Idle EXCEPT !.pc = "run", !.tool = tool, !.args = a, !.method = method]

\* what a slot keeps of the invocation that has returned from it, as long
\* as another invocation can start after it: of a read through the data
\* cache that succeeded, or that failed to authenticate, and of a record
\* query of server.js that succeeded, its tool, arguments and key, the
\* calls it made with their statuses, and the value it returned
Kept(p, rec) ==
    IF /\ \E q \in Procs : q > p
       /\ \/ /\ rec.key[2] # ""
             /\ \/ rec.result.status = "ok"
                \/ rec.trace[Len(rec.trace)].op = "auth"
          \/ /\ rec.tool = "fm_query_records"
             /\ rec.result.status = "ok"
    THEN [rec EXCEPT !.pc = "used", !.token = Undefined,
                     !.result.text = Undefined,
                     !.trace = [i \in DOMAIN rec.trace |->
                                   [rec.trace[i] EXCEPT !.tok = Undefined,
                                                        !.body = Undefined]]]
    ELSE Used

\* ... and until a data cache loses an entry, by a clear or because a TTL
\* has run out
Forgotten(slots) ==
    [p \in DOMAIN slots |-> IF slots[p].pc = "used" THEN Used ELSE slots[p]]

\* the data caches of `instances` are flushed: the reads through them whose
\* data call is in flight remember that the call was sent before the flush
Flushed(slots, instances) ==
    [p \in DOMAIN slots |->
        IF /\ slots[p].pc \in {"data1", "data2"}
           /\ slots[p].key[2] # ""
           /\ slots[p].key[1] \in instances
        THEN [slots[p] EXCEPT !.flushed = TRUE]
        ELSE slots[p]]

\* a session cache loses an entry, by a clear or because a TTL has run out:
\* the invocations that have started remember it
SessionLost(slots) ==
    [p \in DOMAIN slots |->
        IF slots[p] \in {Idle, Used} THEN slots[p]
        ELSE [slots[p] EXCEPT !.cleared = TRUE]]

\* the tools that change the database
MutatingTools ==
    {"fm_create_record", "fm_update_record", "fm_delete_record",
     "fm_run_script"}

\* the prefix the catch of the tool handler puts before error.message
\* ("[x]" and "[ok]" stand for the cross and check marks of server.js)
ErrorPrefix == IF impl = "server.js" THEN "[x] Error: " ELSE "Error: "

\* the handler returns a text to the caller; value is what
\* makeFileMakerRequest, the data cache or the FileMakerClient method gave
Return(rec, status, value, text) ==
    [rec EXCEPT !.pc = "done", !.flushed = FALSE,
                !.result = [status |-> status, value |-> value, text |-> text]]

\* a catch that returns no text
Catch_Silent(rec, message) == Return(rec, "error", Undefined, Undefined)

\* the catch of the tool handler: the error becomes a text
Catch(rec, message) ==
    Return(rec, "error", Undefined, Str(ErrorPrefix \o message))

\* the text of a result: JSON.stringify(result.response), and for
\* fm_delete_record and fm_run_script result.response || { success: true }
ResultText(tool, payload) ==
    IF tool \in {"fm_delete_record", "fm_run_script"}
       /\ ~Truthy(ResponseOf(payload))
    THEN Str("{success: true}")
    ELSE ResponseOf(payload)

\* an event of an invocation's trace: a remote call, the status of its
\* answer (-1 while the call is in flight), the token it carries (a data
\* call) or returns (an authentication call) and the body of a 2xx answer
\* to a data call
Event(op, status, tok, body) ==
    [op |-> op, status |-> status, tok |-> tok, body |-> body]

\* axios(...) of a data call with `Bearer ${token}`: the call is in flight
SendData(rec, token, stage) ==
    [rec EXCEPT !.pc = IF stage = 1 THEN "data1" ELSE "data2",
                !.token = token, !.flushed = FALSE,
                !.trace = Append(@, Event("data", -1, token, Undefined))]

\* axios.post(`${baseURL}/sessions`): the call is in flight
SendAuth(rec, stage) ==
    [rec EXCEPT !.pc = IF stage = 1 THEN "auth1" ELSE "auth2",
                !.trace = Append(@, Event("auth", -1, Undefined, Undefined))]

\* the answer to the call in flight is recorded in the trace
Answered(rec, status, tok, body) ==
    [rec EXCEPT !.trace[Len(rec.trace)] =
                    Event(rec.trace[Len(rec.trace)].op, status, tok, body)]

\* the key of a database's session: `session_${dbConfig.database}`
SessionKey(id) == <<Instance(id), "session_" \o env[id].database>>

\* a token in hand after which every tool, fm_test_connection too, sends a
\* data call
WithToken_DataCall(rec, token, stage) == SendData(rec, token, stage)

\* what follows the token in hand: fm_test_connection reports success,
\* every other tool sends its data call
WithToken(rec, token, stage) ==
    IF rec.tool = "fm_test_connection"
    THEN Return(rec, "ok", Undefined,
                Str("[ok] Connection successful to " \o rec.args.database))
    ELSE SendData(rec, token, stage)

\* an authenticate that asks the backend whatever the session cache holds
Authenticate_NoReuse(rec, sc, stage) ==
    [inv |-> SendAuth(rec, stage),
     sc |-> AfterGet(sc, SessionKey(rec.args.database))]

\* authenticateFileMaker / FileMakerClient.authenticate up to the first
\* await, on session cache sc: the cached session if there is one, the
\* authentication call otherwise.  Yields the invocation and the cache.
Authenticate(rec, sc, stage) ==
    LET k == SessionKey(rec.args.database)
        cachedSession == CacheGet(sc, k)
    IN  [inv |-> IF Truthy(cachedSession)
                 THEN WithToken(rec, cachedSession, stage)
                 ELSE SendAuth(rec, stage),
         sc |-> AfterGet(sc, k)]

----------------------------------------------------------------------------
(* The initial state: the caches are empty and no tool call is in flight *)

Init ==
    /\ impl \in {"server.js", "index.ts"}
    /\ env \in Envs
    /\ startup = Connected(Len(Identifiers) + 1, databaseNames(env))
    /\ dataCache = <<>>
    /\ sessionCache = <<>>
    /\ inv = [p \in Procs |-> Idle]
    /\ last = Idle
    /\ issued = 0

\* an invocation waits for the backend
InFlight(p) == inv[p].pc \in {"auth1", "data1", "auth2", "data2"}
Quiet == \A p \in Procs : ~InFlight(p)

\* the tools of two invocations that wait for the backend at the same
\* time: a cacheable read and a mutation of each program
OverlapTools ==
    {"fm_get_metadata", "fm_create_record", "fm_get_layouts", "fm_run_script"}

\* the record query of each program
RecordQueries == {"fm_query_records", "fm_find_records"}

\* the tools of the second invocation of a behaviour that waits for the
\* backend: those, and a record query after a record query.  The first
\* invocation is one of any tool.
SecondTools == OverlapTools \cup RecordQueries

\* slot p is the next free slot, and the caller may start tool in it
Free(p, tool) ==
    /\ inv[p].pc = "idle"
    /\ \A q \in Procs : q < p => inv[q].pc # "idle"
    /\ p > 1 => tool \in SecondTools
    /\ (p > 1 /\ tool \in RecordQueries) => inv[p - 1].tool \in RecordQueries
    /\ \A q \in Procs :
           InFlight(q) => tool \in OverlapTools /\ inv[q].tool \in OverlapTools

\* the program of this behaviour is ready to take a tool call
Ready(i) == last = Idle /\ impl = i /\ \E p \in Procs : inv[p].pc = "idle"

\* a handler has run up to its first await or to its return, and left the
\* invocations in the slots as `slots`: an invocation that returned is in
\* `last`, one that waits for the backend takes the next free slot.  The
\* model follows the tool calls of a behaviour until the last slot is
\* taken.
StartedWith(rec, slots) ==
    /\ last = Idle
    /\ \E p \in Procs : inv[p].pc = "idle"
    /\ IF rec.pc = "done"
       THEN /\ last' = rec
            /\ inv' = slots
       ELSE /\ \E p \in Procs : /\ Free(p, rec.tool)
                                /\ inv' = [slots EXCEPT ![p] = rec]
            /\ last' = Idle

Started(rec) == StartedWith(rec, inv)

\* the invocation of slot p has run from an answer to its next await or to
\* its return
Resumed(p, rec) ==
    /\ last = Idle
    /\ IF rec.pc = "done"
       THEN /\ last' = rec
            /\ inv' = [inv EXCEPT ![p] = Kept(p, rec)]
       ELSE /\ inv' = [inv EXCEPT ![p] = rec]
            /\ last' = Idle

\* the error of a handler whose args.database is not configured
NotFound == IF impl = "server.js" THEN "Database not found"
            ELSE "Invalid database specified"

----------------------------------------------------------------------------
(* makeFileMakerRequest (server.js) and FileMakerClient.request *)

\* the call, up to its first await: the token, then the data call
makeFileMakerRequest(rec) ==
    LET a == Authenticate(rec, sessionCache, 1)
    IN  /\ Started(a.inv)
        /\ sessionCache' = a.sc

\* a token that is stored only when the session cache holds none
TokenReceived_FirstWins(p) ==
    /\ inv[p].pc \in {"auth1", "auth2"}
    /\ LET rec == inv[p]
           token == Token(rec.args.database, issued + 1)
           stage == IF rec.pc = "auth1" THEN 1 ELSE 2
           k == SessionKey(rec.args.database)
       IN  /\ issued' = issued + 1
           /\ sessionCache' = IF Live(sessionCache, k) THEN sessionCache
                              ELSE CacheSet(sessionCache, k, token)
           /\ Resumed(p, WithToken(Answered(rec, 200, token, Undefined),
                                   token, stage))
    /\ UNCHANGED <<startup, impl, env, dataCache>>

\* the authentication call is answered with a token: the token is stored
\* under the session key and the caller goes on.  (FileMakerClient stores
\* the token in a SessionInfo and returns cachedSession.token of it.)
TokenReceived(p) ==
    /\ inv[p].pc \in {"auth1", "auth2"}
    /\ LET rec == inv[p]
           token == Token(rec.args.database, issued + 1)
           stage == IF rec.pc = "auth1" THEN 1 ELSE 2
       IN  /\ issued' = issued + 1
           /\ sessionCache' = CacheSet(sessionCache,
                                       SessionKey(rec.args.database), token)
           /\ Resumed(p, WithToken(Answered(rec, 200, token, Undefined),
                                   token, stage))
    /\ UNCHANGED <<startup, impl, env, dataCache>>

\* a message that quotes the credentials of the failed call
AuthenticationFailedMessage_WithAuth(id, f) ==
    "Authentication failed for " \o env[id].username \o ":"
        \o env[id].password \o ": " \o ErrorMessage(f)

\* the message of the error authenticate throws
AuthenticationFailedMessage(id, f) ==
    IF impl = "server.js"
    THEN "Authentication failed for " \o env[id].database \o ": "
             \o ErrorMessage(f)
    ELSE "Authentication failed: " \o ErrorMessage(f)

\* a failed authentication after which the request is sent all the same,
\* without a token
AuthenticationFailed_GoesOn(p, f) ==
    /\ inv[p].pc \in {"auth1", "auth2"}
    /\ Resumed(p, SendData(Answered(inv[p], f.status, Undefined, Undefined),
                           Undefined, 2))
    /\ UNCHANGED <<startup, impl, env, dataCache, sessionCache, issued>>

\* the authentication call fails: authenticate throws; fm_test_connection
\* reports the failure, every other handler's catch returns the error
AuthenticationFailed(p, f) ==
    /\ inv[p].pc \in {"auth1", "auth2"}
    /\ LET rec == Answered(inv[p], f.status, Undefined, Undefined)
           message == AuthenticationFailedMessage(rec.args.database, f)
       IN  Resumed(p, IF rec.tool = "fm_test_connection"
                      THEN Return(rec, "failed", Undefined,
                                  Str("[x] Connection failed to "
                                      \o rec.args.database \o ": " \o message))
                      ELSE Catch(rec, message))
    /\ UNCHANGED <<startup, impl, env, dataCache, sessionCache, issued>>

\* the data call, original or retried, is answered 2xx: response.data is
\* returned, stored by a cacheable read under its key, and rendered
DataReceived(p, payload) ==
    /\ inv[p].pc \in {"data1", "data2"}
    /\ LET rec == Answered(inv[p], 200, inv[p].token, payload)
       IN  /\ dataCache' = IF rec.key[2] # ""
                           THEN CacheSet(dataCache, rec.key, payload)
                           ELSE dataCache
           /\ Resumed(p, Return(rec, "ok", payload,
                                ResultText(rec.tool, payload)))
    /\ UNCHANGED <<startup, impl, env, sessionCache, issued>>

\* a retry that sends the rejected token again, without asking for a new
\* one
Unauthorized_SameToken(p, f) ==
    /\ inv[p].pc = "data1"
    /\ f.status = 401
    /\ Resumed(p, SendData(Answered(inv[p], f.status, inv[p].token, Undefined),
                           inv[p].token, 2))
    /\ UNCHANGED <<startup, impl, env, dataCache, sessionCache, issued>>

\* a 401 handler that looks the session up without deleting it first
Unauthorized_FromCache(p, f) ==
    /\ inv[p].pc = "data1"
    /\ f.status = 401
    /\ LET rec == Answered(inv[p], f.status, inv[p].token, Undefined)
           a == Authenticate(rec, sessionCache, 2)
       IN  /\ Resumed(p, a.inv)
           /\ sessionCache' = a.sc
    /\ UNCHANGED <<startup, impl, env, dataCache, issued>>

\* the original data call is answered 401: the session is deleted, a token
\* is asked for again and the data call is retried
Unauthorized(p, f) ==
    /\ inv[p].pc = "data1"
    /\ f.status = 401
    /\ LET rec == Answered(inv[p], f.status, inv[p].token, Undefined)
           a == Authenticate(rec,
                             CacheDel(sessionCache,
                                      SessionKey(rec.args.database)),
                             2)
       IN  /\ Resumed(p, a.inv)
           /\ sessionCache' = a.sc
    /\ UNCHANGED <<startup, impl, env, dataCache, issued>>

\* a failure of the original data call that also drops the session
RequestFailed_DropsSession(p, f) ==
    /\ inv[p].pc = "data1"
    /\ f.status # 401
    /\ sessionCache' = CacheDel(sessionCache, SessionKey(inv[p].args.database))
    /\ Resumed(p, Catch(Answered(inv[p], f.status, inv[p].token, Undefined),
                        "Request failed: " \o ErrorMessage(f)))
    /\ UNCHANGED <<startup, impl, env, dataCache, issued>>

\* a retry after any failure of the original data call
RequestFailed_Retried(p, f) ==
    /\ inv[p].pc = "data1"
    /\ f.status # 401
    /\ Resumed(p, SendData(Answered(inv[p], f.status, inv[p].token, Undefined),
                           inv[p].token, 2))
    /\ UNCHANGED <<startup, impl, env, dataCache, sessionCache, issued>>

\* a failure of the original data call whose answer is stored under the
\* key of the read
RequestFailed_Stored(p, f) ==
    /\ inv[p].pc = "data1"
    /\ f.status # 401
    /\ dataCache' = IF inv[p].key[2] # ""
                    THEN CacheSet(dataCache, inv[p].key, Obj(""))
                    ELSE dataCache
    /\ Resumed(p, Catch(Answered(inv[p], f.status, inv[p].token, Undefined),
                        "Request failed: " \o ErrorMessage(f)))
    /\ UNCHANGED <<startup, impl, env, sessionCache, issued>>

\* the original data call fails otherwise: `Request failed: ...` is thrown
RequestFailed(p, f) ==
    /\ inv[p].pc = "data1"
    /\ f.status # 401
    /\ Resumed(p, Catch(Answered(inv[p], f.status, inv[p].token, Undefined),
                        "Request failed: " \o ErrorMessage(f)))
    /\ UNCHANGED <<startup, impl, env, dataCache, sessionCache, issued>>

\* a retry of the retry: a third data call after a second 401
RetryFailed_Again(p, f) ==
    /\ inv[p].pc = "data2"
    /\ LET rec == Answered(inv[p], f.status, inv[p].token, Undefined)
       IN  Resumed(p, IF f.status = 401 /\ Len(rec.trace) < 5
                      THEN SendData(rec, inv[p].token, 2)
                      ELSE Catch(rec, AxiosMessage(f)))
    /\ UNCHANGED <<startup, impl, env, dataCache, sessionCache, issued>>

\* the retried data call fails: the error of axios leaves the catch block
RetryFailed(p, f) ==
    /\ inv[p].pc = "data2"
    /\ Resumed(p, Catch(Answered(inv[p], f.status, inv[p].token, Undefined),
                        AxiosMessage(f)))
    /\ UNCHANGED <<startup, impl, env, dataCache, sessionCache, issued>>

----------------------------------------------------------------------------
(* The tool handlers, up to their first await *)

\* a read through the data cache: the cached result if there is one,
\* otherwise the request, whose result DataReceived stores under the key
CachedRead(tool, a, method, key) ==
    /\ IF a.database \notin Registered(env)
       THEN /\ Started(Catch(NewCall(tool, a, method), NotFound))
            /\ UNCHANGED <<dataCache, sessionCache>>
       ELSE LET k == <<Instance(a.database), key>>
                result == CacheGet(dataCache, k)
                rec == [NewCall(tool, a, method) EXCEPT !.key = k]
            IN  /\ dataCache' = AfterGet(dataCache, k)
                /\ IF Truthy(result)
                   THEN /\ Started(Return(rec, "ok", result,
                                             ResultText(tool, result)))
                        /\ UNCHANGED sessionCache
                   ELSE makeFileMakerRequest(rec)
    /\ UNCHANGED <<startup, impl, env, issued>>

\* a mutation that goes through the data cache like a read
Uncached_ThroughCache(tool, a, method) ==
    CachedRead(tool, a, method, tool \o "_" \o a.database)

\* the keys of the data caches: `layout_${args.database}_${args.layout}`
\* (server.js; FileMakerClient.getLayout with this.config.database) and
\* `record_${this.config.database}_${layoutName}_${recordId}`
LayoutKey(database, layout) == "layout_" \o database \o "_" \o layout

RecordKey(database, layout, recordId) ==
    "record_" \o database \o "_" \o layout \o "_" \o recordId

\* a request that does not look the database up before it authenticates
Uncached_Unchecked(tool, a, method) ==
    /\ IF a.database \notin Registered(env)
       THEN /\ Started(SendAuth(NewCall(tool, a, method), 1))
            /\ UNCHANGED sessionCache
       ELSE makeFileMakerRequest(NewCall(tool, a, method))
    /\ UNCHANGED <<startup, impl, env, dataCache, issued>>

\* a request that goes around the data cache
Uncached(tool, a, method) ==
    /\ IF a.database \notin Registered(env)
       THEN /\ Started(Catch(NewCall(tool, a, method), NotFound))
            /\ UNCHANGED sessionCache
       ELSE makeFileMakerRequest(NewCall(tool, a, method))
    /\ UNCHANGED <<startup, impl, env, dataCache, issued>>

\* JSON.stringify({databases: databaseNames, count: databaseNames.length})
NamesText(names) ==
    Str("{databases: [" \o Join(names) \o "], count: "
        \o ToString(Len(names)) \o "}")

\* the text of fm_list_databases: the names and their count
ListText(e) == NamesText(databaseNames(e))

(* server.js *)

fm_list_databases ==
    /\ Ready("server.js")
    /\ Started(Return(NewCall("fm_list_databases", NoArgs, ""),
                        "ok", Undefined, ListText(env)))
    /\ UNCHANGED <<startup, impl, env, dataCache, sessionCache, issued>>

\* fm_test_connection asks authenticateFileMaker for a token and sends no
\* data call (WithToken)
fm_test_connection(database) ==
    /\ Ready("server.js")
    /\ LET rec == NewCall("fm_test_connection", Args(database, "", ""), "")
       IN  IF database \notin Registered(env)
           THEN /\ Started(Catch(rec, NotFound))
                /\ UNCHANGED sessionCache
           ELSE LET a == Authenticate(rec, sessionCache, 1)
                IN  /\ Started(a.inv)
                    /\ sessionCache' = a.sc
    /\ UNCHANGED <<startup, impl, env, dataCache, issued>>

fm_get_metadata(database) ==
    /\ Ready("server.js")
    /\ CachedRead("fm_get_metadata", Args(database, "", ""), "GET",
                  "metadata_" \o database)

fm_get_layout_metadata(database, layout) ==
    /\ Ready("server.js")
    /\ CachedRead("fm_get_layout_metadata", Args(database, layout, ""),
                  "GET", LayoutKey(database, layout))

\* fm_query_records: POST to _find if a query is given, GET of the records
\* otherwise; the result goes through no cache
fm_query_records(database, layout, query) ==
    /\ Ready("server.js")
    /\ Uncached("fm_query_records", QueryArgs(database, layout, query),
                IF query # NoQuery THEN "POST" ELSE "GET")

fm_create_record(database, layout) ==
    /\ Ready("server.js")
    /\ Uncached("fm_create_record", Args(database, layout, ""), "POST")

fm_update_record(database, layout) ==
    /\ Ready("server.js")
    /\ Uncached("fm_update_record", Args(database, layout, ""), "PATCH")

fm_delete_record(database, layout) ==
    /\ Ready("server.js")
    /\ Uncached("fm_delete_record", Args(database, layout, ""), "DELETE")

fm_run_script(database, layout) ==
    /\ Ready("server.js")
    /\ Uncached("fm_run_script", Args(database, layout, ""), "GET")

fm_get_scripts(database) ==
    /\ Ready("server.js")
    /\ CachedRead("fm_get_scripts", Args(database, "", ""), "GET",
                  "scripts_" \o database)

\* the values a caller passes as args.type
ClearTypes == {"data", "session", "all"}

fm_clear_cache(type) ==
    /\ Ready("server.js")
    /\ dataCache' = IF type \in {"data", "all"}
                    THEN FlushAll(dataCache, "") ELSE dataCache
    /\ sessionCache' = IF type \in {"session", "all"}
                       THEN FlushAll(sessionCache, "") ELSE sessionCache
    /\ StartedWith(Return(NewCall("fm_clear_cache", Args("", "", type), ""),
                          "ok", Undefined,
                          Str("[ok] " \o type \o " cache cleared")),
                   LET slots == IF type \in {"data", "all"}
                                THEN Flushed(Forgotten(inv), {""}) ELSE inv
                   IN  IF sessionCache' # sessionCache
                       THEN SessionLost(slots) ELSE slots)
    /\ UNCHANGED <<startup, impl, env, issued>>

(* src/index.ts: the handlers and the FileMakerClient method each calls *)

\* this.config.database of the client of a database
ClientDatabase(id) == env[id].database

\* the defaults of fm_get_records: (args.limit || 100) and (args.offset || 1)
DefaultLimit == 100
DefaultOffset == 1
\* the record a caller asks fm_get_record for
RecordId == "7"
\* JSON.stringify of the findRequest that fm_find_records builds of
\* args.query: { query: query }
FindRequest(query) == "{\"query\":[" \o Stringify(query) \o "]}"

ix_fm_list_databases ==
    /\ Ready("index.ts")
    /\ Started(Return(NewCall("fm_list_databases", NoArgs, ""),
                        "ok", Undefined, ListText(env)))
    /\ UNCHANGED <<startup, impl, env, dataCache, sessionCache, issued>>

\* fm_get_layouts: FileMakerClient.getLayouts
fm_get_layouts(database) ==
    /\ Ready("index.ts")
    /\ CachedRead("fm_get_layouts", Args(database, "", ""), "GET",
                  "layouts_" \o ClientDatabase(database))

\* fm_get_layout_metadata: FileMakerClient.getLayout
ix_fm_get_layout_metadata(database, layout) ==
    /\ Ready("index.ts")
    /\ CachedRead("fm_get_layout_metadata", Args(database, layout, ""),
                  "GET", LayoutKey(ClientDatabase(database), layout))

\* fm_get_records: FileMakerClient.getRecords
fm_get_records(database, layout) ==
    /\ Ready("index.ts")
    /\ CachedRead("fm_get_records", Args(database, layout, ""), "GET",
                  "records_" \o ClientDatabase(database) \o "_" \o layout
                      \o "_" \o ToString(DefaultLimit)
                      \o "_" \o ToString(DefaultOffset))

\* a findRecords whose key leaves the find request out
fm_find_records_SharedKey(database, layout, query) ==
    /\ Ready("index.ts")
    /\ CachedRead("fm_find_records", QueryArgs(database, layout, query),
                  "POST",
                  "find_" \o ClientDatabase(database) \o "_" \o layout)

\* fm_find_records: FileMakerClient.findRecords
fm_find_records(database, layout, query) ==
    /\ Ready("index.ts")
    /\ CachedRead("fm_find_records", QueryArgs(database, layout, query),
                  "POST",
                  "find_" \o ClientDatabase(database) \o "_" \o layout
                      \o "_" \o FindRequest(query))

\* fm_get_record: FileMakerClient.getRecord
fm_get_record(database, layout) ==
    /\ Ready("index.ts")
    /\ CachedRead("fm_get_record", Args(database, layout, ""), "GET",
                  RecordKey(ClientDatabase(database), layout, RecordId))

\* fm_run_script: FileMakerClient.runScript
ix_fm_run_script(database, layout) ==
    /\ Ready("index.ts")
    /\ Uncached("fm_run_script", Args(database, layout, ""), "GET")

\* FileMakerClient.getProductInfo, a method no tool of index.ts calls
getProductInfo(database) ==
    /\ Ready("index.ts")
    /\ database \in Registered(env)
    /\ CachedRead("getProductInfo", Args(database, "", ""), "GET",
                  "productInfo_" \o ClientDatabase(database))

\* fm_clear_cache of index.ts: FileMakerClient.clearCache of one client or,
\* for 'all', of every client
ix_fm_clear_cache(database) ==
    /\ Ready("index.ts")
    /\ LET rec == NewCall("fm_clear_cache", Args(database, "", ""), "")
       IN  IF database = "all"
           THEN /\ dataCache' = <<>>
                /\ StartedWith(Return(rec, "ok", Undefined,
                                      Str("Cache cleared for all databases")),
                               Flushed(Forgotten(inv), Registered(env)))
           ELSE IF database \notin Registered(env)
           THEN /\ UNCHANGED dataCache
                /\ Started(Catch(rec, NotFound))
           ELSE /\ dataCache' = FlushAll(dataCache, database)
                /\ StartedWith(Return(rec, "ok", Undefined,
                                      Str("Cache cleared for " \o database)),
                               Flushed(Forgotten(inv), {database}))
    /\ UNCHANGED <<startup, impl, env, sessionCache, issued>>

(* both programs: calls that no case of the switch serves *)

\* a name that the switch does not know
UnknownName == "fm_export"

\* default: throw new Error(`Unknown tool: ${name}`), which the catch returns
UnknownTool ==
    /\ Ready(impl)
    /\ Started(Catch(NewCall(UnknownName, NoArgs, ""),
                      "Unknown tool: " \o UnknownName))
    /\ UNCHANGED <<startup, impl, env, dataCache, sessionCache, issued>>

\* the tools a caller calls without arguments
BareTools == {"fm_list_databases", "fm_get_metadata"}

\* a call whose params hold no arguments.  index.ts returns before the
\* switch, whatever the tool.  In server.js fm_list_databases, which reads
\* no argument, answers as ever, and in every other case args.database
\* throws a TypeError, which the catch returns.
NoArguments(tool) ==
    /\ Ready(impl)
    /\ LET rec == NewCall(tool, NoArgs, "")
       IN  Started(IF impl = "index.ts"
                   THEN Return(rec, "error", Undefined,
                               Str("Error: No arguments provided"))
                   ELSE IF tool = "fm_list_databases"
                   THEN Return(rec, "ok", Undefined, ListText(env))
                   ELSE Catch(rec, "Cannot read properties of undefined "
                                       \o "(reading 'database')"))
    /\ UNCHANGED <<startup, impl, env, dataCache, sessionCache, issued>>

----------------------------------------------------------------------------
(* Time *)

\* the text an invocation returned is sent to the caller
Respond ==
    /\ last # Idle
    /\ last' = Idle
    /\ UNCHANGED <<startup, impl, env, dataCache, sessionCache, inv, issued>>

\* time passes between two tool calls: the TTL of an entry of a data cache
\* runs out
DataExpires(k) ==
    /\ last = Idle
    /\ Quiet
    /\ k \in DOMAIN dataCache
    /\ ~dataCache[k].expired
    /\ dataCache' = [dataCache EXCEPT ![k].expired = TRUE]
    /\ inv' = Forgotten(inv)
    /\ UNCHANGED <<startup, impl, env, sessionCache, last, issued>>

\* time passes between two tool calls: the TTL of an entry of a session
\* cache runs out
SessionExpires(k) ==
    /\ last = Idle
    /\ Quiet
    /\ k \in DOMAIN sessionCache
    /\ ~sessionCache[k].expired
    /\ sessionCache' = [sessionCache EXCEPT ![k].expired = TRUE]
    /\ inv' = SessionLost(inv)
    /\ UNCHANGED <<startup, impl, env, dataCache, last, issued>>

\* the periodic check of the data caches (checkperiod: 120)
CheckData ==
    /\ last = Idle
    /\ Quiet
    /\ dataCache' = AfterSweep(dataCache)
    /\ dataCache' # dataCache
    /\ UNCHANGED <<startup, impl, env, sessionCache, inv, last, issued>>

\* the periodic check of the session caches (checkperiod: 60)
CheckSession ==
    /\ last = Idle
    /\ Quiet
    /\ sessionCache' = AfterSweep(sessionCache)
    /\ sessionCache' # sessionCache
    /\ UNCHANGED <<startup, impl, env, dataCache, inv, last, issued>>

----------------------------------------------------------------------------
(* The specification *)

Next ==
    \/ fm_list_databases
    \/ \E d \in ArgDatabases : fm_test_connection(d)
    \/ \E d \in ArgDatabases : fm_get_metadata(d)
    \/ \E d \in ArgDatabases, l \in Layouts :
           fm_get_layout_metadata(d, l)
    \/ \E d \in ArgDatabases, l \in Layouts :
           \E q \in ServerQueries : fm_query_records(d, l, q)
    \/ \E d \in ArgDatabases, l \in Layouts :
           fm_create_record(d, l)
    \/ \E d \in ArgDatabases, l \in Layouts :
           fm_update_record(d, l)
    \/ \E d \in ArgDatabases, l \in Layouts :
           fm_delete_record(d, l)
    \/ \E d \in ArgDatabases, l \in Layouts :
           fm_run_script(d, l)
    \/ \E d \in ArgDatabases : fm_get_scripts(d)
    \/ \E t \in ClearTypes : fm_clear_cache(t)
    \/ ix_fm_list_databases
    \/ \E d \in ArgDatabases : fm_get_layouts(d)
    \/ \E d \in ArgDatabases, l \in Layouts :
           ix_fm_get_layout_metadata(d, l)
    \/ \E d \in ArgDatabases, l \in Layouts :
           fm_get_records(d, l)
    \/ \E d \in ArgDatabases, l \in Layouts :
           \E q \in Queries : fm_find_records(d, l, q)
    \/ \E d \in ArgDatabases, l \in Layouts :
           fm_get_record(d, l)
    \/ \E d \in ArgDatabases, l \in Layouts :
           ix_fm_run_script(d, l)
    \/ \E d \in ArgDatabases : getProductInfo(d)
    \/ \E d \in ArgDatabases \cup {"all"} :
           ix_fm_clear_cache(d)
    \/ UnknownTool
    \/ \E t \in BareTools : NoArguments(t)
    \/ \E p \in Procs : TokenReceived(p)
    \/ \E p \in Procs, f \in Failures : AuthenticationFailed(p, f)
    \/ \E p \in Procs, r \in Payloads : DataReceived(p, r)
    \/ \E p \in Procs, f \in Failures : Unauthorized(p, f)
    \/ \E p \in Procs, f \in Failures : RequestFailed(p, f)
    \/ \E p \in Procs, f \in Failures : RetryFailed(p, f)
    \/ Respond
    \/ \E k \in DOMAIN dataCache : DataExpires(k)
    \/ \E k \in DOMAIN sessionCache : SessionExpires(k)
    \/ CheckData
    \/ CheckSession

Spec == Init /\ [][Next]_vars

\* what the program does by itself, whatever the callers and the backends
\* do: the event loop sends a result that is ready and runs the periodic
\* checks of the caches.  No step of the program ends a remote call that
\* is not answered: axios is called without a timeout
Fairness ==
    /\ WF_vars(Respond)
    /\ WF_vars(CheckData)
    /\ WF_vars(CheckSession)

FairSpec == Spec /\ Fairness

\* the backend answers the remote call that the invocation of slot p waits
\* for, and the invocation runs to its next await or to its return
Answer(p) ==
    \/ TokenReceived(p)
    \/ \E f \in Failures : AuthenticationFailed(p, f)
    \/ \E r \in Payloads : DataReceived(p, r)
    \/ \E f \in Failures : Unauthorized(p, f)
    \/ \E f \in Failures : RequestFailed(p, f)
    \/ \E f \in Failures : RetryFailed(p, f)

\* every remote call is answered, and the event loop runs the continuation
\* of an answer that has arrived even when other calls keep coming in
Answering == \A p \in Procs : SF_vars(Answer(p))

\* the tool calls that may overlap, of both programs, with the answers of
\* the backends: the invocations of a behaviour in all their interleavings
CallsNext ==
    \/ \E d \in ArgDatabases : fm_get_metadata(d)
    \/ \E d \in ArgDatabases, l \in Layouts : fm_create_record(d, l)
    \/ \E d \in ArgDatabases : fm_get_layouts(d)
    \/ \E d \in ArgDatabases, l \in Layouts : ix_fm_run_script(d, l)
    \/ \E p \in Procs : Answer(p)
    \/ Respond

Calls == Init /\ [][CallsNext]_vars /\ WF_vars(Respond) /\ Answering

----------------------------------------------------------------------------
(* The start of the process: the discovery loop over the FM_SERVER_ keys,  *)
(* the check of databaseNames.length and main().  Its specification starts *)
(* before the loop, from every environment of three groups of variables.   *)

\* the identifiers of serverKeys, in the order of Object.keys(process.env)
serverKeys == <<"A", "B", "C">>

\* a variable of the environment: unset or empty, or set
Values == {"", "x"}

\* the environments the discovery starts from
StartupEnvs ==
    [{serverKeys[n] : n \in 1..Len(serverKeys)} ->
        [server : Values, database : Values, username : Values,
         password : Values, apiKey : Values]]

StartupInit ==
    /\ impl \in {"server.js", "index.ts"}
    /\ env \in StartupEnvs
    /\ startup = Discovering(1, <<>>)
    /\ dataCache = <<>>
    /\ sessionCache = <<>>
    /\ inv = [p \in Procs |-> Idle]
    /\ last = Idle
    /\ issued = 0

\* one turn of the loop: the group of the next identifier is tested and the
\* identifier is pushed if the test passes
Discover ==
    /\ startup.pc = "discover"
    /\ startup.i <= Len(serverKeys)
    /\ LET identifier == serverKeys[startup.i]
       IN  startup' = Discovering(startup.i + 1,
                                  IF ValidGroup(env[identifier])
                                  THEN Append(startup.names, identifier)
                                  ELSE startup.names)
    /\ UNCHANGED <<impl, env, dataCache, sessionCache, inv, last, issued>>

\* a check that lets the process go on only if every group was valid
NoDatabases_AnyInvalid ==
    /\ startup.pc = "discover"
    /\ startup.i > Len(serverKeys)
    /\ Len(startup.names) < Len(serverKeys)
    /\ startup' = Exited(startup.i, startup.names)
    /\ UNCHANGED <<impl, env, dataCache, sessionCache, inv, last, issued>>

\* databaseNames.length === 0 after the loop: process.exit(1) (index.ts
\* throws, and its catch calls process.exit(1))
NoDatabases ==
    /\ startup.pc = "discover"
    /\ startup.i > Len(serverKeys)
    /\ Len(startup.names) = 0
    /\ startup' = Exited(startup.i, startup.names)
    /\ UNCHANGED <<impl, env, dataCache, sessionCache, inv, last, issued>>

\* main(): server.connect(transport), reached when the check has passed
main ==
    /\ startup.pc = "discover"
    /\ startup.i > Len(serverKeys)
    /\ Len(startup.names) # 0
    /\ startup' = Connected(startup.i, startup.names)
    /\ UNCHANGED <<impl, env, dataCache, sessionCache, inv, last, issued>>

\* the connected server answers fm_list_databases
ListDatabases ==
    /\ startup.pc = "connected"
    /\ last = Idle
    /\ last' = Return(NewCall("fm_list_databases", NoArgs, ""),
                      "ok", Undefined, NamesText(startup.names))
    /\ UNCHANGED <<startup, impl, env, dataCache, sessionCache, inv, issued>>

\* the auth option of the authentication call: always the user name and
\* the password of the configuration (undefined, or '' in index.ts, when
\* they are not set); no other credential is ever presented
BasicAuth(g) ==
    [kind |-> "basic", username |-> g.username, password |-> g.password]

\* the connected server is asked to test the connection of a registered
\* database that has no session: axios.post(`${baseURL}/sessions`, {},
\* { auth }) is in flight
TestConnection(id) ==
    /\ startup.pc = "connected"
    /\ last = Idle
    /\ \E n \in 1..Len(startup.names) : startup.names[n] = id
    /\ last' = [pc |-> "auth1", tool |-> "fm_test_connection",
                args |-> Args(id, "", ""), auth |-> BasicAuth(env[id])]
    /\ UNCHANGED <<startup, impl, env, dataCache, sessionCache, inv, issued>>

StartupNext ==
    \/ Discover
    \/ NoDatabases
    \/ main
    \/ ListDatabases
    \/ \E n \in 1..Len(serverKeys) : TestConnection(serverKeys[n])
    \/ Respond

Startup == StartupInit /\ [][StartupNext]_vars

----------------------------------------------------------------------------
(* The construction of the caches: the stdTTL of the data cache and of the *)
(* session cache, from the variables CACHE_TTL and SESSION_TTL             *)

\* the TTLs written in the code, in seconds
DefaultCacheTTL == 840
DefaultSessionTTL == 780

\* a variable of process.env that is set: a text, the sequence of its
\* characters; one that is not set is undefined
Text(chars) == [t |-> "text", v |-> chars]
\* a number of JavaScript, and NaN
Num(n) == [t |-> "number", v |-> n]
NaN == [t |-> "NaN", v |-> 0]

\* the values of CACHE_TTL and of SESSION_TTL: not set, empty, zero, not a
\* number, and two numbers of seconds
TtlValues ==
    {Undefined, Text(<<>>), Text(<<"0">>), Text(<<"a", "b", "c">>),
     Text(<<"6", "0">>), Text(<<"9", "0", "0">>)}

Digits == <<"0", "1", "2", "3", "4", "5", "6", "7", "8", "9">>
IsDigit(c) == \E d \in DOMAIN Digits : Digits[d] = c
DigitOf(c) == (CHOOSE d \in DOMAIN Digits : Digits[d] = c) - 1

\* the number that the digits at the start of a text write, after n
RECURSIVE Leading(_, _)
Leading(chars, n) ==
    IF chars = <<>> \/ ~IsDigit(Head(chars)) THEN n
    ELSE Leading(Tail(chars), 10 * n + DigitOf(Head(chars)))

\* parseInt: the number at the start of the text, NaN when the text does
\* not start with a digit and for undefined
parseInt(x) ==
    IF x.t = "text" /\ x.v # <<>> /\ IsDigit(Head(x.v))
    THEN Num(Leading(x.v, 0))
    ELSE NaN

\* x || y: y when x is undefined, NaN, 0 or the empty text
Or(x, y) ==
    IF \/ x.t \in {"undefined", "NaN"}
       \/ x.t = "number" /\ x.v = 0
       \/ x.t = "text" /\ x.v = <<>>
    THEN y
    ELSE x

\* the program before it constructs its caches, between the two
\* constructions, and after them
Loading == [pc |-> "load", dataTTL |-> Undefined, sessionTTL |-> Undefined]
Constructing(data) ==
    [pc |-> "data", dataTTL |-> data, sessionTTL |-> Undefined]
Constructed(data, session) ==
    [pc |-> "caches", dataTTL |-> data, sessionTTL |-> session]

CachesInit ==
    /\ impl \in {"server.js", "index.ts"}
    /\ env \in [{"CACHE_TTL", "SESSION_TTL"} -> TtlValues]
    /\ startup = Loading
    /\ dataCache = <<>>
    /\ sessionCache = <<>>
    /\ inv = [p \in Procs |-> Idle]
    /\ last = Idle
    /\ issued = 0

\* new NodeCache({ stdTTL: ..., checkperiod: 120 }) of the data cache
NewDataCache ==
    /\ startup.pc = "load"
    /\ startup' =
           Constructing(IF impl = "server.js"
                        THEN Or(parseInt(env["CACHE_TTL"]),
                                Num(DefaultCacheTTL))
                        ELSE parseInt(Or(env["CACHE_TTL"],
                                         Text(<<"8", "4", "0">>))))
    /\ UNCHANGED <<impl, env, dataCache, sessionCache, inv, last, issued>>

\* new NodeCache({ stdTTL: ..., checkperiod: 60 }) of the session cache
NewSessionCache ==
    /\ startup.pc = "data"
    /\ startup' =
           Constructed(startup.dataTTL,
                       IF impl = "server.js"
                       THEN Or(parseInt(env["SESSION_TTL"]),
                               Num(DefaultSessionTTL))
                       ELSE Num(DefaultSessionTTL))
    /\ UNCHANGED <<impl, env, dataCache, sessionCache, inv, last, issued>>

CachesNext ==
    \/ NewDataCache
    \/ NewSessionCache

Caches == CachesInit /\ [][CachesNext]_vars

----------------------------------------------------------------------------
(* The keys of the data caches, for names that hold underscores *)

\* identifiers, as FM_SERVER_A and FM_SERVER_A_B give them, with the
\* database each configures, layouts and record ids
KeyIdentifiers == {"A", "A_B"}
KeyEnv ==
    [id \in KeyIdentifiers |->
        IF id = "A" THEN Group("s1", "Sales", "u", "p", "")
        ELSE Group("s2", "Sales_EU", "u", "p", "")]
KeyLayouts == {"C", "B_C", "C_1"}
RecordIds == {"2", "1_2"}

\* a read through a data cache that derives its key from a database, a
\* layout and, for fm_get_record, a record id
Read(tool, database, layout, recordId) ==
    [tool |-> tool, database |-> database, layout |-> layout,
     recordId |-> recordId]

\* the reads of each program
Reads(i) ==
    {Read("fm_get_layout_metadata", d, l, "") :
         d \in KeyIdentifiers, l \in KeyLayouts}
        \cup (IF i = "index.ts"
              THEN {Read("fm_get_record", d, l, r) :
                        d \in KeyIdentifiers, l \in KeyLayouts,
                        r \in RecordIds}
              ELSE {})

\* the cache and the key of a read: the one data cache of server.js with
\* the identifier in the key, the cache of the database's client with the
\* database name in the key
KeyOf(r) ==
    <<Instance(r.database),
      IF r.tool = "fm_get_record"
      THEN RecordKey(env[r.database].database, r.layout, r.recordId)
      ELSE LayoutKey(IF impl = "server.js" THEN r.database
                     ELSE env[r.database].database,
                     r.layout)>>

KeysInit ==
    /\ impl \in {"server.js", "index.ts"}
    /\ env = KeyEnv
    /\ startup = Connected(Cardinality(KeyIdentifiers) + 1, <<"A", "A_B">>)
    /\ dataCache = <<>>
    /\ sessionCache = <<>>
    /\ inv = <<>>
    /\ last = Idle
    /\ issued = 0

\* a read derives its key, after at most one other read
DeriveKey(r) ==
    /\ Len(inv) < 2
    /\ inv' = Append(inv, [read |-> r, key |-> KeyOf(r)])
    /\ UNCHANGED <<startup, impl, env, dataCache, sessionCache, last, issued>>

KeysNext == \E r \in Reads(impl) : DeriveKey(r)

Keys == KeysInit /\ [][KeysNext]_vars

----------------------------------------------------------------------------
(* What the properties speak of *)

\* the positions of an invocation's trace that are data calls, and those
\* that are authentication calls
DataCalls(rec) == {i \in DOMAIN rec.trace : rec.trace[i].op = "data"}
AuthCalls(rec) == {i \in DOMAIN rec.trace : rec.trace[i].op = "auth"}

\* the invocations of a state: those of the slots and the one that has
\* just returned
Invocations == {inv[p] : p \in Procs} \cup {last}

\* the first and the second data call of an invocation that has made them
FirstData(rec) == CHOOSE i \in DataCalls(rec) : \A j \in DataCalls(rec) : i <= j
SecondData(rec) ==
    CHOOSE i \in DataCalls(rec) \ {FirstData(rec)} :
        \A j \in DataCalls(rec) \ {FirstData(rec)} : i <= j

\* the invocation that has just returned made two data calls, the first
\* answered 401
Retried(rec) ==
    /\ rec.pc = "done"
    /\ Cardinality(DataCalls(rec)) >= 2
    /\ rec.trace[FirstData(rec)].status = 401

\* the invocation of slot p takes a step: it starts, goes on or returns
Acts(p) == inv'[p].pc # inv[p].pc \/ inv'[p].trace # inv[p].trace

\* the invocation that starts in a step, Idle if none does: it takes a slot
\* or it returns at once
Begun ==
    IF \E p \in Procs : inv[p].pc = "idle" /\ inv'[p].pc # "idle"
    THEN inv'[CHOOSE p \in Procs : inv[p].pc = "idle" /\ inv'[p].pc # "idle"]
    ELSE IF last = Idle /\ last' # Idle /\ \A p \in Procs : ~Acts(p)
    THEN last'
    ELSE Idle

\* the invocation of slot p after a step it has taken
After(p) == IF inv'[p].pc = "used" THEN last' ELSE inv'[p]

\* slot p keeps a read through the data cache that has returned, and no
\* other invocation has taken a slot since
KeptRead(p) ==
    /\ inv[p].pc = "used"
    /\ inv[p].key[2] # ""
    /\ \A q \in Procs \ {p} : inv[q].pc = "idle"

----------------------------------------------------------------------------
(* Properties *)

\* C1: an invocation whose first data call was answered 401 and whose
\* retried data call was answered 2xx returns successfully what the retried
\* call returned, and between its two data calls it made exactly one
\* authentication call, which was answered with the token the retry carries
C1_AuthExpirySelfHeals ==
    (Retried(last) /\ last.trace[SecondData(last)].status = 200) =>
        LET i == FirstData(last)
            j == SecondData(last)
            between == {k \in AuthCalls(last) : i < k /\ k < j}
        IN  /\ last.result.status = "ok"
            /\ last.result.value = last.trace[j].body
            /\ Cardinality(between) = 1
            /\ \A k \in between : /\ last.trace[k].status = 200
                                  /\ last.trace[k].tok = last.trace[j].tok
            /\ Cardinality(DataCalls(last)) = 2

\* C1 happens: a 401, then a retry that succeeds
C1_Witness ==
    /\ Retried(last)
    /\ last.trace[SecondData(last)].status = 200
    /\ last.result.status = "ok"

\* C2: an invocation whose original and retried data call were both
\* answered 401 has made exactly two data calls when it returns, and it
\* returns the error of the second; no invocation ever makes a third data
\* call
C2_NoInfiniteRetry ==
    /\ \A rec \in Invocations : Cardinality(DataCalls(rec)) <= 2
    /\ (Retried(last) /\ last.trace[SecondData(last)].status = 401) =>
           /\ Cardinality(DataCalls(last)) = 2
           /\ SecondData(last) = Len(last.trace)
           /\ last.result.status = "error"
           /\ last.result.text =
                  Str(ErrorPrefix \o "Request failed with status code 401")

\* C2 happens: two data calls, both answered 401
C2_Witness ==
    /\ Retried(last)
    /\ last.trace[SecondData(last)].status = 401
    /\ last.result.status = "error"

\* C3: a mutating tool sends its request at most twice, a second time only
\* after a 401 to the first, and exactly once when the first send succeeded
\* or failed otherwise
C3_AtMostOneRetryForMutations ==
    \A rec \in Invocations :
        rec.tool \in MutatingTools =>
            /\ Cardinality(DataCalls(rec)) <= 2
            /\ Cardinality(DataCalls(rec)) = 2 =>
                   rec.trace[FirstData(rec)].status = 401
            /\ (/\ rec.pc = "done"
                /\ DataCalls(rec) # {}
                /\ rec.trace[FirstData(rec)].status # 401) =>
                   Cardinality(DataCalls(rec)) = 1

\* C3 happens: a mutation is sent a second time after a 401, and the
\* invocation returns
C3_Witness ==
    /\ last.tool \in MutatingTools
    /\ Retried(last)

\* C4: after a read through the data cache has returned successfully, and
\* before a data cache loses an entry, the next call of the same tool with
\* the same arguments returns at once, without a remote call, the value the
\* first call returned
C4_CacheHitAvoidsNetwork ==
    [][\A p \in Procs :
          (/\ KeptRead(p)
           /\ inv[p].result.status = "ok"
           /\ Begun # Idle
           /\ Begun.tool = inv[p].tool
           /\ Begun.args = inv[p].args) =>
              /\ Begun.pc = "done"
              /\ Begun.trace = <<>>
              /\ Begun.result.status = "ok"
              /\ Begun.result.value = inv[p].result.value]_vars

\* C5: a read through the data cache that starts when the cache holds a
\* live entry under its key returns the entry at once: it makes no
\* authentication call and no data call, and the session cache stays as it is
C5_HitNeedsNoToken ==
    [][\A k \in DOMAIN dataCache :
          (Live(dataCache, k) /\ Begun # Idle /\ Begun.key = k) =>
              /\ Begun.pc = "done"
              /\ Begun.trace = <<>>
              /\ Begun.result.value = dataCache[k].v
              /\ sessionCache' = sessionCache]_vars

\* C6: no step of an invocation of a mutating tool changes a data cache,
\* and what such an invocation returns is the answer to its own last data
\* call
C6_MutationsBypassCache ==
    [][/\ \A p \in Procs :
              (Acts(p) /\ (inv[p].tool \in MutatingTools
                           \/ inv'[p].tool \in MutatingTools)) =>
                  dataCache' = dataCache
       /\ (Begun # Idle /\ Begun.tool \in MutatingTools) =>
              dataCache' = dataCache
       /\ (last'.tool \in MutatingTools /\ last'.result.status = "ok") =>
              /\ last'.trace # <<>>
              /\ last'.result.value = last'.trace[Len(last'.trace)].body]_vars

\* C6 happens: a mutating tool returns successfully while a data cache
\* holds an entry
C6_Witness ==
    /\ last.tool \in MutatingTools
    /\ last.result.status = "ok"
    /\ dataCache # <<>>

\* the status of the answer that slot p's call in flight gets in a step
Status(p) == After(p).trace[Len(inv[p].trace)].status

Carries(database, message) ==
    "Authentication failed"
        \o (IF impl = "server.js" THEN " for " \o env[database].database
            ELSE "")
        \o ": " \o message

\* C8: when an authentication call fails the session cache stays as it is,
\* the invocation returns in the same step, so that no call follows, with an
\* error that carries the message of the backend if it has sent one, and a
\* first authentication call that fails is the only call of its invocation
C8_AuthenticationFailure ==
    [][\A p \in Procs :
          (/\ inv[p].pc \in {"auth1", "auth2"}
           /\ Acts(p)
           /\ Status(p) # 200) =>
              /\ sessionCache' = sessionCache
              /\ inv'[p].pc = "used"
              /\ last'.pc = "done"
              /\ last'.result.status \in {"error", "failed"}
              /\ Len(last'.trace) = Len(inv[p].trace)
              /\ inv[p].pc = "auth1" => Len(last'.trace) = 1
              /\ \A f \in Failures :
                     (f.status = Status(p) /\ f.message # "") =>
                         last'.result.text =
                             Str((IF last'.tool = "fm_test_connection"
                                  THEN "[x] Connection failed to "
                                           \o last'.args.database \o ": "
                                  ELSE ErrorPrefix)
                                 \o Carries(last'.args.database, f.message))
      ]_vars

\* C8 happens: an authentication call has failed with a message of the
\* backend, and the invocation has returned the error
C8_Witness ==
    /\ last.pc = "done"
    /\ Len(last.trace) = 1
    /\ last.trace[1].op = "auth"
    /\ last.trace[1].status = 401
    /\ last.result.status = "error"
    /\ SessionKey(last.args.database) \notin DOMAIN sessionCache

\* C9: when a data call, original or retried, fails with a status other
\* than 401 or without an answer, the invocation returns the error in the
\* same step, so that no call follows, and both caches stay as they are
C9_OtherFailuresPropagate ==
    [][\A p \in Procs :
          (/\ inv[p].pc \in {"data1", "data2"}
           /\ Acts(p)
           /\ Status(p) \notin {200, 401}) =>
              /\ inv'[p].pc = "used"
              /\ last'.pc = "done"
              /\ last'.result.status = "error"
              /\ Len(last'.trace) = Len(inv[p].trace)
              /\ sessionCache' = sessionCache
              /\ dataCache' = dataCache]_vars

\* C9 happens: a data call has failed with status 500 while the session
\* cache holds the session it used, and the invocation has returned
C9_Witness ==
    /\ last.pc = "done"
    /\ last.result.status = "error"
    /\ last.trace # <<>>
    /\ last.trace[Len(last.trace)].op = "data"
    /\ last.trace[Len(last.trace)].status = 500
    /\ Live(sessionCache, SessionKey(last.args.database))
    /\ sessionCache[SessionKey(last.args.database)].v = last.token

\* C10: when an invocation returns, the session cache holds none of the
\* tokens that one of its data calls carried and the backend answered 401
C10_SessionRemovedOn401 ==
    last.pc = "done" =>
        \A i \in DataCalls(last) :
            last.trace[i].status = 401 =>
                LET k == SessionKey(last.args.database)
                IN  ~(k \in DOMAIN sessionCache
                      /\ sessionCache[k].v = last.trace[i].tok)

\* C11: in the step in which the original data call of an invocation is
\* answered 401, the session entry of its database is removed, whatever
\* token it holds, and the invocation sends an authentication call and
\* nothing else; in the step in which that authentication call is answered
\* with a token, the invocation sends its retried data call, and the call
\* carries the token of the answer
C11_RecoveryOrder ==
    [][\A p \in Procs :
          /\ (/\ inv[p].pc = "data1"
              /\ Acts(p)
              /\ Status(p) = 401) =>
                 /\ SessionKey(inv[p].args.database) \notin DOMAIN sessionCache'
                 /\ inv'[p].pc = "auth2"
                 /\ Len(inv'[p].trace) = Len(inv[p].trace) + 1
                 /\ inv'[p].trace[Len(inv'[p].trace)] =
                        Event("auth", -1, Undefined, Undefined)
          /\ (/\ inv[p].pc = "auth2"
              /\ Acts(p)
              /\ Status(p) = 200) =>
                 /\ inv[p].trace[Len(inv[p].trace) - 1].op = "data"
                 /\ inv[p].trace[Len(inv[p].trace) - 1].status = 401
                 /\ inv'[p].pc = "data2"
                 /\ Len(inv'[p].trace) = Len(inv[p].trace) + 1
                 /\ inv'[p].trace[Len(inv'[p].trace)] =
                        Event("data", -1,
                              inv'[p].trace[Len(inv[p].trace)].tok, Undefined)
                 /\ inv'[p].token = Token(inv[p].args.database, issued')
                 /\ inv'[p].token = inv'[p].trace[Len(inv[p].trace)].tok
                 /\ inv'[p].token # inv[p].token]_vars

\* C11 happens: an invocation retries its data call with the third token
\* of its database, after its first token was rejected while the session
\* cache held the second token, which another invocation had stored
C11_Witness ==
    \E p \in Procs, q \in Procs, d \in ArgDatabases :
        /\ p # q
        /\ inv[p].pc = "data2"
        /\ inv[p].args.database = d
        /\ inv[p].trace[FirstData(inv[p])].tok = Token(d, 1)
        /\ inv[p].trace[FirstData(inv[p])].status = 401
        /\ inv[p].token = Token(d, 3)
        /\ \E i \in AuthCalls(inv[q]) : inv[q].trace[i].tok = Token(d, 2)

\* C12: no two invocations wait at the same time for the answer to an
\* authentication call for the same session: of the invocations that
\* overlap and find no live session, one authenticates and the others wait
\* for its token
C12_AuthenticationSerialized ==
    \A p \in Procs, q \in Procs :
        (/\ p # q
         /\ inv[p].pc \in {"auth1", "auth2"}
         /\ inv[q].pc \in {"auth1", "auth2"}) =>
            SessionKey(inv[p].args.database) # SessionKey(inv[q].args.database)

\* C13: an invocation that returns a result without a remote call returns
\* the value of a live entry of the data cache, and an invocation that sends
\* its first data call without an authentication call, or that reports a
\* connection without one, uses the token of a live entry of the session
\* cache; an entry that has run out is never used, whether the periodic
\* check has removed it or not, and the lookup that finds it removes it
C13_ExpiryHonoured ==
    [][Begun # Idle =>
          /\ (/\ Begun.key[2] # ""
              /\ Begun.trace = <<>>
              /\ Begun.result.status = "ok") =>
                 /\ Live(dataCache, Begun.key)
                 /\ Begun.result.value = dataCache[Begun.key].v
          /\ (Begun.trace # <<>> /\ Begun.trace[1].op = "data") =>
                 /\ Live(sessionCache, SessionKey(Begun.args.database))
                 /\ Begun.trace[1].tok =
                        sessionCache[SessionKey(Begun.args.database)].v
          /\ (/\ Begun.tool = "fm_test_connection"
              /\ Begun.trace = <<>>
              /\ Begun.result.status = "ok") =>
                 Live(sessionCache, SessionKey(Begun.args.database))
          /\ (/\ Begun.key[2] # ""
              /\ Begun.key \in DOMAIN dataCache
              /\ Expired(dataCache, Begun.key)) =>
                 /\ Begun.trace # <<>>
                 /\ Begun.key \notin DOMAIN dataCache'
          /\ (/\ Begun.trace # <<>>
              /\ SessionKey(Begun.args.database) \in DOMAIN sessionCache
              /\ Expired(sessionCache, SessionKey(Begun.args.database))) =>
                 /\ Begun.trace[1].op = "auth"
                 /\ SessionKey(Begun.args.database) \notin DOMAIN sessionCache']_vars

\* C13 happens: a FileMakerClient has been given the first token and has
\* stored a result, which has run out and which no periodic check has
\* removed; the second invocation, a read through the data cache of the
\* same client, has found no live session, has been given the second token
\* and waits for its data call
C13_Witness ==
    \E q \in Procs :
        /\ impl = "index.ts"
        /\ issued = 2
        /\ inv[q].pc = "data1"
        /\ inv[q].key[2] # ""
        /\ inv[q].trace[1].op = "auth"
        /\ inv[q].token = Token(inv[q].args.database, 2)
        /\ \E k \in DOMAIN dataCache :
               k[1] = Instance(inv[q].args.database) /\ Expired(dataCache, k)

\* the test of the specification on one group of variables
Passes(g) ==
    /\ g.server # ""
    /\ g.database # ""
    /\ \/ g.username # "" /\ g.password # ""
       \/ g.apiKey # ""

\* the identifiers that the discovery has pushed
Registry == {startup.names[n] : n \in 1..Len(startup.names)}

\* C14: once the discovery loop has looked at every group, an identifier
\* is in the registry if and only if its own group has a host, a database
\* name and either a user name with a password or an API key, whatever the
\* other groups hold; each identifier is registered once
C14_Discovery ==
    startup.i > Len(serverKeys) =>
        /\ \A id \in DOMAIN env : id \in Registry <=> Passes(env[id])
        /\ Cardinality(Registry) = Len(startup.names)

\* C14 happens: of three groups, the second has a user name but neither a
\* password nor an API key, and the registry holds exactly the other two
C14_Witness ==
    /\ startup.i > Len(serverKeys)
    /\ env["B"] = [server |-> "x", database |-> "x", username |-> "x",
                   password |-> "", apiKey |-> ""]
    /\ env["C"].username = ""
    /\ startup.names = <<"A", "C">>

\* C15: the process exits during start-up only after the loop has looked
\* at every group and none has passed, and then it never connects and never
\* answers a tool call; when at least one group has passed, the step after
\* the loop connects the server with the registry of the groups that
\* passed; tool calls are answered only by a connected server
C15_FatalOnlyWithoutTargets ==
    [][/\ startup.pc # "exited"
       /\ startup'.pc = "exited" =>
              /\ startup.pc = "discover"
              /\ startup.i > Len(serverKeys)
              /\ \A id \in DOMAIN env : ~Passes(env[id])
              /\ last' = Idle
       /\ (/\ startup.pc = "discover"
           /\ startup.i > Len(serverKeys)
           /\ \E id \in DOMAIN env : Passes(env[id])) =>
              /\ startup'.pc = "connected"
              /\ startup'.names = startup.names
              /\ \A id \in DOMAIN env :
                     Passes(env[id]) <=>
                         \E n \in 1..Len(startup'.names) :
                             startup'.names[n] = id
       /\ last' # Idle => startup.pc = "connected"]_vars

\* C15 happens: every group has a host and none passes, and the process
\* has exited
C15_Witness ==
    /\ startup.pc = "exited"
    /\ \A id \in DOMAIN env : env[id].server # ""
    /\ \E id \in DOMAIN env : env[id].apiKey = "" /\ env[id].username # ""

\* the scope an invocation of fm_clear_cache names: args.type in server.js;
\* index.ts has no type, and its only clear of the whole process is the
\* database 'all'
Scope(rec) ==
    IF impl = "server.js" THEN rec.args.type
    ELSE IF rec.args.database = "all" THEN "all"
    ELSE ""

\* C16: an invocation of fm_clear_cache that names the scope "session",
\* "data" or "all" returns a confirmation at once, without a remote call;
\* for "session" the session cache is empty afterwards and the data cache
\* is as before, for "data" the data cache is empty and the session cache is
\* as before, for "all" both are empty
C16_ClearActsOnScope ==
    [][(/\ Begun # Idle
        /\ Begun.tool = "fm_clear_cache"
        /\ Scope(Begun) \in ClearTypes) =>
           /\ Begun.pc = "done"
           /\ Begun.trace = <<>>
           /\ Begun.result.status = "ok"
           /\ Scope(Begun) = "session" =>
                  sessionCache' = <<>> /\ dataCache' = dataCache
           /\ Scope(Begun) = "data" =>
                  dataCache' = <<>> /\ sessionCache' = sessionCache
           /\ Scope(Begun) = "all" =>
                  dataCache' = <<>> /\ sessionCache' = <<>>]_vars

\* C17: whenever fm_clear_cache for the scope "all" has just returned, the
\* first time or again, it has returned a confirmation and both caches are
\* empty, so that a second call in a row leaves the state of the first
C17_IdempotentClear ==
    (last.tool = "fm_clear_cache" /\ Scope(last) = "all") =>
        /\ last.result.status = "ok"
        /\ dataCache = <<>>
        /\ sessionCache = <<>>

\* slot p keeps a record query that has returned successfully, and no other
\* invocation has taken a slot since
KeptQuery(p) ==
    /\ inv[p].pc = "used"
    /\ inv[p].tool \in RecordQueries
    /\ inv[p].result.status = "ok"
    /\ \A q \in Procs \ {p} : inv[q].pc = "idle"

\* the invocation that starts is a record query of the tool, the database
\* and the layout of the one that slot p keeps
NextQuery(p) ==
    /\ KeptQuery(p)
    /\ Begun # Idle
    /\ Begun.tool = inv[p].tool
    /\ Begun.args.database = inv[p].args.database
    /\ Begun.args.layout = inv[p].args.layout

\* C18: a record query that follows a successful record query of the same
\* database and layout with another query payload, before any entry of the
\* data cache is lost, is not answered from the cache: it has a key of its
\* own, if it has one, and it sends its own remote call
C18_KeyDiscrimination ==
    [][\A p \in Procs :
          (NextQuery(p) /\ Begun.args.query # inv[p].args.query) =>
              /\ Begun.pc # "done"
              /\ Begun.trace # <<>>
              /\ inv[p].key[2] # "" => Begun.key # inv[p].key]_vars

\* C18 happens: the data cache holds the result of a find for one city, and
\* a find for another city on the same database and layout waits for the
\* answer to its own data call
C18_Witness ==
    \E p \in Procs, q \in Procs :
        /\ inv[p].pc = "used"
        /\ inv[p].tool = "fm_find_records"
        /\ inv[p].args.query[1] = <<"city", "Bern">>
        /\ Live(dataCache, inv[p].key)
        /\ Truthy(dataCache[inv[p].key].v)
        /\ inv[q].pc = "data1"
        /\ inv[q].tool = "fm_find_records"
        /\ inv[q].args.database = inv[p].args.database
        /\ inv[q].args.layout = inv[p].args.layout
        /\ inv[q].args.query[1] = <<"city", "Basel">>

\* two find requests have the same properties, in whatever order
SameProperties(a, b) ==
    /\ Len(a) = Len(b)
    /\ {a[i] : i \in DOMAIN a} = {b[i] : i \in DOMAIN b}

\* C19: a find that follows a successful find of the same database and
\* layout whose request has the same properties in another order, before
\* any entry of the data cache is lost, derives the key of the first and is
\* answered at once with the entry the first one stored
C19_NormalizedKeys ==
    [][\A p \in Procs :
          (/\ NextQuery(p)
           /\ Begun.args.query # inv[p].args.query
           /\ SameProperties(Begun.args.query, inv[p].args.query)) =>
              /\ Begun.key = inv[p].key
              /\ Begun.pc = "done"
              /\ Begun.trace = <<>>
              /\ Begun.result.value = inv[p].result.value]_vars

\* the record queries of the claim: fm_query_records of server.js, and
\* fm_get_records and fm_find_records of index.ts
RepeatableQueries == RecordQueries \cup {"fm_get_records"}

\* C20: a record query that repeats a record query which has returned
\* successfully, with the same database, layout and query (and the same
\* sort, limit and offset, which the model holds fixed), before any entry of
\* the data cache is lost, returns at once what the first returned and
\* makes no remote call
C20_RepeatedQueryFromCache ==
    [][\A p \in Procs :
          (/\ inv[p].pc = "used"
           /\ inv[p].tool \in RepeatableQueries
           /\ inv[p].result.status = "ok"
           /\ \A q \in Procs \ {p} : inv[q].pc = "idle"
           /\ Begun # Idle
           /\ Begun.tool = inv[p].tool
           /\ Begun.args = inv[p].args) =>
              /\ Begun.pc = "done"
              /\ Begun.trace = <<>>
              /\ Begun.result.status = "ok"
              /\ Begun.result.value = inv[p].result.value]_vars

\* the tokens that the backend of a database has issued
TokensOf(id) == {Token(id, n) : n \in 1..issued}

\* C21: the session entry of every registered identifier holds a token
\* that an authentication call for that identifier was answered with, so
\* that the entries of two identifiers are two entries, and every data call
\* of an invocation carries a token that an authentication call for the
\* invocation's own database was answered with
C21_SessionPerTarget ==
    /\ \A x \in Registered(env) :
           Live(sessionCache, SessionKey(x)) =>
               sessionCache[SessionKey(x)].v \in TokensOf(x)
    /\ \A rec \in Invocations :
           \A i \in DataCalls(rec) :
               rec.trace[i].tok # Undefined =>
                   rec.trace[i].tok \in TokensOf(rec.args.database)

\* C22: the authentication call for a registered database presents the
\* credentials that made its group valid: the user name and the password if
\* both are set, the API key otherwise
C22_OwnCredentialVariant ==
    (last # Idle /\ last.pc = "auth1") =>
        LET g == env[last.args.database]
        IN  IF g.username # "" /\ g.password # ""
            THEN last.auth = [kind |-> "basic", username |-> g.username,
                              password |-> g.password]
            ELSE last.auth = [kind |-> "apiKey", apiKey |-> g.apiKey]

\* the invocation is one whose handler has ended in a failure
Failed(rec) == rec.pc = "done" /\ rec.result.status \in {"error", "failed"}

\* C23: every invocation is waiting for an answer or has returned; one that
\* waits has had only answers after which the handler goes on; one that has
\* returned after a call that failed, for an unknown tool, for an unknown
\* database or (index.ts) without arguments has returned a failure; and
\* every failure carries a text that is longer than the prefix of the catch
C23_FailuresAreResults ==
    /\ \A rec \in Invocations :
           rec.pc \in {"idle", "used", "done", "auth1", "data1", "auth2", "data2"}
    /\ \A p \in Procs :
           InFlight(p) =>
               \A i \in DOMAIN inv[p].trace :
                   \/ inv[p].trace[i].status = 200
                   \/ i = Len(inv[p].trace) /\ inv[p].trace[i].status = -1
                   \/ /\ inv[p].trace[i].op = "data"
                      /\ inv[p].trace[i].status = 401
                      /\ i = FirstData(inv[p])
    /\ last.pc = "done" =>
           /\ (last.trace # <<>> /\ last.trace[Len(last.trace)].status # 200) =>
                  Failed(last)
           /\ last.tool = UnknownName => Failed(last)
           /\ last.args.database \in ArgDatabases \ Registered(env) =>
                  Failed(last)
    /\ Failed(last) =>
           /\ last.result.text # Undefined
           /\ Len(last.result.text.v) > Len(ErrorPrefix)

\* C23 happens: a read has returned a failed authentication, and a later
\* call, of an unknown tool, has been answered with its own failure
C23_Witness ==
    /\ last.tool = UnknownName
    /\ Failed(last)
    /\ \E p \in Procs :
           /\ inv[p].pc = "used"
           /\ inv[p].result.status = "error"
           /\ inv[p].trace # <<>>
           /\ inv[p].trace[Len(inv[p].trace)].op = "auth"

\* the secrets of a run: the passwords and API keys of the configuration
\* and the tokens of the sessions opened so far
Secrets ==
    (UNION {{env[id].password, env[id].apiKey} : id \in Registered(env)})
        \cup {Token(id, n).v : id \in Registered(env), n \in 1..issued}

\* what the backends say about a failed call, and what axios says
BackendTexts ==
    ({f.message : f \in Failures} \ {""})
        \cup {"Network Error"}
        \cup {"Request failed with status code " \o ToString(f.status) :
                  f \in Failures}

\* the texts of authenticate's errors, made of database names and of the
\* backends' texts
AuthenticationTexts ==
    {"Authentication failed for " \o env[id].database \o ": " \o m :
         id \in Registered(env), m \in BackendTexts}
        \cup {"Authentication failed: " \o m : m \in BackendTexts}

\* the error messages that hold nothing of a run's secrets: fixed texts,
\* the names the caller passed, database names and the backends' texts
PublicTexts ==
    {pre \o m :
         pre \in {"[x] Error: ", "Error: "},
         m \in {"Database not found", "Invalid database specified",
                "No arguments provided", "Unknown tool: " \o UnknownName,
                "Cannot read properties of undefined (reading 'database')"}
               \cup {"Request failed: " \o b : b \in BackendTexts}
               \cup BackendTexts
               \cup AuthenticationTexts}
        \cup {"[x] Connection failed to " \o d \o ": " \o m :
                  d \in ArgDatabases, m \in AuthenticationTexts}

C25_EveryInvocationReturns ==
    \A p \in Procs : InFlight(p) ~> ~InFlight(p)

\* the tools that read records
RecordReads == RecordQueries \cup {"fm_get_records", "fm_get_record"}

\* C26: when a mutating operation on a database has returned successfully,
\* no record read of that database that returned before it has left a live
\* entry in the data cache, from which the same read would now be answered
C26_ReadYourAwaitedWrites ==
    (/\ last.pc = "done"
     /\ last.tool \in MutatingTools
     /\ last.result.status = "ok") =>
        \A p \in Procs :
            (/\ inv[p].pc = "used"
             /\ inv[p].tool \in RecordReads
             /\ inv[p].args.database = last.args.database) =>
                ~(/\ Live(dataCache, inv[p].key)
                  /\ Truthy(CacheGet(dataCache, inv[p].key)))

\* C27: a step in which a read through the data cache receives the answer
\* to a remote call leaves the data cache as it is unless the answer is a
\* 2xx to a data call; then the cache holds the body of the answer, live,
\* under the key of the read, every other entry is as before, and the read
\* returns that body
C27_OnlySuccessfulFetchesStore ==
    [][\A p \in Procs :
          (InFlight(p) /\ Acts(p) /\ inv[p].key[2] # "") =>
              LET e == After(p).trace[Len(inv[p].trace)]
                  k == inv[p].key
              IN  IF e.op = "data" /\ e.status = 200
                  THEN /\ DOMAIN dataCache' = DOMAIN dataCache \cup {k}
                       /\ dataCache'[k] = [v |-> e.body, expired |-> FALSE]
                       /\ \A x \in DOMAIN dataCache \ {k} :
                              dataCache'[x] = dataCache[x]
                       /\ last'.result.status = "ok"
                       /\ last'.result.value = e.body
                  ELSE dataCache' = dataCache]_vars

\* C27 happens: a read through the data cache has returned the failure of
\* its retried data call, and the cache holds nothing under its key
C27_Witness ==
    /\ Failed(last)
    /\ last.key[2] # ""
    /\ Retried(last)
    /\ last.trace[Len(last.trace)].op = "data"
    /\ last.trace[Len(last.trace)].status \notin {200, 401, -1}
    /\ last.key \notin DOMAIN dataCache

\* C28: an invocation of fm_list_databases, with or without arguments,
\* returns at once, without a remote call, the text of the identifiers
\* registered at discovery, and leaves both caches as they are
C28_ListNeedsNothing ==
    [][(Begun # Idle /\ Begun.tool = "fm_list_databases") =>
           /\ Begun.pc = "done"
           /\ Begun.trace = <<>>
           /\ Begun.result.status = "ok"
           /\ Begun.result.text = NamesText(startup.names)
           /\ dataCache' = dataCache
           /\ sessionCache' = sessionCache]_vars

\* the TTL that a variable configures: the number of seconds it writes, and
\* the default when it is not set, is zero or is not a number
IsNumber(x) ==
    /\ x.t = "text"
    /\ x.v # <<>>
    /\ \A i \in DOMAIN x.v : IsDigit(x.v[i])
Configured(x, default) ==
    IF IsNumber(x) /\ Leading(x.v, 0) # 0 THEN Num(Leading(x.v, 0))
    ELSE Num(default)

\* C29: once the caches are constructed, the TTL of the session cache is
\* what SESSION_TTL configures, 780 by default, the TTL of the data cache is
\* what CACHE_TTL configures, 840 by default, and with neither variable set
\* the TTL of the session cache is below that of the data cache
C29_IndependentTTLs ==
    startup.pc = "caches" =>
        /\ startup.sessionTTL = Configured(env["SESSION_TTL"], DefaultSessionTTL)
        /\ startup.dataTTL = Configured(env["CACHE_TTL"], DefaultCacheTTL)
        /\ (env["SESSION_TTL"] = Undefined /\ env["CACHE_TTL"] = Undefined) =>
               startup.sessionTTL.v < startup.dataTTL.v

\* C30: after a read through the data cache has fetched and returned a 2xx
\* body without a usable `response` member, the cache holds that body
\* under the key of the read, and the next call of the same tool with the
\* same arguments, before a data cache loses an entry, returns that body at
\* once, without a remote call
C30_TransportSuccessIsCached ==
    [][\A p \in Procs :
          (/\ KeptRead(p)
           /\ inv[p].result.status = "ok"
           /\ inv[p].trace # <<>>
           /\ ~Truthy(ResponseOf(inv[p].result.value))) =>
              /\ Live(dataCache, inv[p].key)
              /\ dataCache[inv[p].key].v = inv[p].result.value
              /\ (/\ Begun # Idle
                  /\ Begun.tool = inv[p].tool
                  /\ Begun.args = inv[p].args) =>
                     /\ Begun.pc = "done"
                     /\ Begun.trace = <<>>
                     /\ Begun.result.value = inv[p].result.value]_vars

\* C31: an invocation that names a database that the discovery has not
\* registered returns a failure with a text at once, without an
\* authentication call or a data call, and leaves both caches as they are
C31_UnknownTargetFailsLocally ==
    [][(/\ Begun # Idle
        /\ Begun.args.database \in ArgDatabases \ Registered(env)) =>
           /\ Failed(Begun)
           /\ Begun.trace = <<>>
           /\ Begun.result.text = Str(ErrorPrefix \o NotFound)
           /\ dataCache' = dataCache
           /\ sessionCache' = sessionCache]_vars

\* C31 happens: a call for a database that is not registered has returned
\* its failure while a session and a result are cached
C31_Witness ==
    /\ Failed(last)
    /\ last.args.database \in ArgDatabases \ Registered(env)
    /\ last.trace = <<>>
    /\ \E k \in DOMAIN sessionCache : Live(sessionCache, k)
    /\ \E k \in DOMAIN dataCache : Live(dataCache, k)

\* the text fm_test_connection returns when authenticateFileMaker throws
\* after a call answered with status s
ConnectionFailedTexts(database, s) ==
    {Str("[x] Connection failed to " \o database \o ": "
         \o Carries(database, ErrorMessage(f))) :
        f \in {g \in Failures : g.status = s}}

\* C32: fm_test_connection for a registered database that starts with a
\* live session under the database's key reports success at once, without
\* a call; otherwise it sends one authentication call, reports success
\* when the call is answered with a token and reports the authentication
\* error when it fails, leaving the session cache as it is; none of its
\* steps changes the data cache and it never sends a data call
C32_TestConnection ==
    [][/\ (/\ Begun # Idle
           /\ Begun.tool = "fm_test_connection"
           /\ Begun.args.database \in Registered(env)) =>
              LET k == SessionKey(Begun.args.database)
              IN  /\ dataCache' = dataCache
                  /\ IF Live(sessionCache, k)
                     THEN /\ Begun.pc = "done"
                          /\ Begun.result.status = "ok"
                          /\ Begun.trace = <<>>
                          /\ sessionCache' = sessionCache
                     ELSE /\ Begun.pc = "auth1"
                          /\ Len(Begun.trace) = 1
                          /\ Begun.trace[1].op = "auth"
       /\ \A p \in Procs :
              (inv[p].tool = "fm_test_connection" /\ Acts(p)) =>
                  /\ dataCache' = dataCache
                  /\ last'.pc = "done"
                  /\ DataCalls(last') = {}
                  /\ Len(last'.trace) = 1
                  /\ IF Status(p) = 200
                     THEN /\ last'.result.status = "ok"
                          /\ Live(sessionCache',
                                  SessionKey(inv[p].args.database))
                     ELSE /\ last'.result.status = "failed"
                          /\ last'.result.text \in
                                 ConnectionFailedTexts(inv[p].args.database,
                                                       Status(p))
                          /\ sessionCache' = sessionCache]_vars

\* C32 happens: fm_test_connection has reported success from a session
\* that an earlier invocation had stored, without a call of its own
C32_Witness ==
    /\ last.pc = "done"
    /\ last.tool = "fm_test_connection"
    /\ last.result.status = "ok"
    /\ last.trace = <<>>
    /\ Live(sessionCache, SessionKey(last.args.database))

\* C33: a live session entry stops being live only in a step in which its
\* TTL runs out, in a step of fm_clear_cache, or in the step in which an
\* invocation of its database receives a 401 to a data call that carried
\* the very token the entry holds
C33_InvalidationOnlyOfRejectedToken ==
    [][\A k \in DOMAIN sessionCache :
          (Live(sessionCache, k) /\ ~Live(sessionCache', k)) =>
              \/ k \in DOMAIN sessionCache' /\ Expired(sessionCache', k)
              \/ Begun # Idle /\ Begun.tool = "fm_clear_cache"
              \/ \E p \in Procs :
                     /\ inv[p].pc = "data1"
                     /\ Acts(p)
                     /\ Status(p) = 401
                     /\ SessionKey(inv[p].args.database) = k
                     /\ inv[p].token = sessionCache[k].v]_vars

\* C34: of two invocations of a read through the data cache that wait for
\* the backend at the same time with the same key, at most one has sent a
\* data call
C34_OverlappingReadsFetchOnce ==
    \A p \in Procs, q \in Procs :
        (/\ p # q
         /\ InFlight(p)
         /\ InFlight(q)
         /\ inv[p].key[2] # ""
         /\ inv[p].key = inv[q].key) =>
            ~(DataCalls(inv[p]) # {} /\ DataCalls(inv[q]) # {})

\* C35: the answer to a data call that a read through the data cache had
\* sent before a clear of that cache completed leaves no entry in the
\* cache, from which a later read would be answered
C35_ClearNotUndone ==
    [][\A p \in Procs :
          (inv[p].flushed /\ Acts(p) /\ Status(p) = 200) =>
              ~Live(dataCache', inv[p].key)]_vars

\* C36: two reads that differ in their tool, their database, their layout
\* or their record id have different keys or different caches
C36_InjectiveKeys ==
    \A p \in DOMAIN inv, q \in DOMAIN inv :
        inv[p].read # inv[q].read => inv[p].key # inv[q].key

\* C37: when every remote call is answered, every invocation that waits
\* for the backend returns, and no invocation ever makes more than two
\* authentication calls or more than two data calls
C37_EveryInvocationTerminates ==
    /\ [](\A rec \in Invocations :
              /\ Cardinality(AuthCalls(rec)) <= 2
              /\ Cardinality(DataCalls(rec)) <= 2)
    /\ \A p \in Procs : InFlight(p) ~> ~InFlight(p)

\* C37 happens: an invocation has returned after two authentication calls
\* and two data calls while another invocation waits for the backend
C37_Witness ==
    /\ last.pc = "done"
    /\ Cardinality(AuthCalls(last)) = 2
    /\ Cardinality(DataCalls(last)) = 2
    /\ \E p \in Procs : InFlight(p)

\* C38: the step in which an authentication call is answered with a token
\* puts that token, with a new TTL, under the session key of its database,
\* whatever the cache held there, and leaves the other entries as they are;
\* and every entry of the session cache holds a token that an
\* authentication call for a database with that key was answered with
C38_LastWriteWins ==
    /\ [][\A p \in Procs :
             (/\ inv[p].pc \in {"auth1", "auth2"}
              /\ Acts(p)
              /\ Status(p) = 200) =>
                 LET k == SessionKey(inv[p].args.database)
                     e == After(p).trace[Len(inv[p].trace)]
                 IN  /\ DOMAIN sessionCache' = DOMAIN sessionCache \cup {k}
                     /\ sessionCache'[k] = [v |-> e.tok, expired |-> FALSE]
                     /\ \A x \in DOMAIN sessionCache \ {k} :
                            sessionCache'[x] = sessionCache[x]]_vars
    /\ [](\A k \in DOMAIN sessionCache :
              \E id \in Registered(env) :
                  /\ SessionKey(id) = k
                  /\ sessionCache[k].v \in TokensOf(id))

\* C38 happens: of two overlapping invocations on one database the second
\* was answered first; the first one's token, answered last, is the one
\* the session cache holds
C38_Witness ==
    \E d \in Registered(env) :
        /\ inv[1].args.database = d
        /\ inv[2].args.database = d
        /\ inv[1].token = Token(d, 2)
        /\ inv[2].token = Token(d, 1)
        /\ Live(sessionCache, SessionKey(d))
        /\ sessionCache[SessionKey(d)].v = Token(d, 2)

====
